---- MODULE Spec2Model ----
(***************************************************************************)
(* A model of src/src/skiplist/_skiplist.py: the levels vectors, the       *)
(* entries, and the _SkipList operations, with the exceptions the Python   *)
(* code raises modelled as outcomes.                                       *)
(*                                                                         *)
(* Entries live in an arena (the sequence `entries`); a reference to an    *)
(* entry is its index in the arena and None is 0.  A levels vector is a    *)
(* sequence of references; Python index idx is TLA+ index idx + 1.         *)
(***************************************************************************)
EXTENDS Integers, Sequences, FiniteSets, TLC

\* ---------------------------------------------------------------- bounds
MaxKey == 2
MaxVal == 2
MaxLists == 2
MaxLevel == 2

Keys == 1..MaxKey
Values == 1..MaxVal
None == 0

VARIABLES
    header,     \* _SkipList._header._levels (a class attribute: one vector for all instances)
    entries,    \* arena of the _SkipListEntry objects created so far
    instances,  \* number of _SkipList objects constructed
    ref,        \* the reference map that received the set/del calls made on instance 1
    last,       \* the last call made and its outcome
    srch,       \* local state of a running _search
    examined,   \* (levels vector, ceiling) pairs a running _search has examined
    revisit,    \* TRUE once a running _search examined a pair for the second time
    fres,       \* the last call of find_greatest_nongreater_key and its result
    call        \* a direct call of _link_entry or of a header vector method, with the heap before it

vars == <<header, entries, instances, ref, last, srch, examined, revisit, fres, call>>

Min(a, b) == IF a < b THEN a ELSE b

\* ------------------------------------------------------- _FillableList
\* ensure_size(n): extend with None up to length n
RECURSIVE ensure_size(_, _)
ensure_size(l, n) == IF Len(l) < n THEN ensure_size(Append(l, None), n) ELSE l

\* ------------------------------------------------ _SkipListLevelsVector
\* a vector built one slot short: [None] * level_idx
NewLevels_short(level_idx) == [i \in 1..level_idx |-> None]

\* _SkipListLevelsVector(level_idx)._levels
NewLevels(level_idx) == [i \in 1..(level_idx + 1) |-> None]

\* result of a call that may raise
Ret(e, l) == [exc |-> "none", entry |-> e, level |-> l]
Raise(x) == [exc |-> x, entry |-> None, level |-> -1]

\* the for loop of find_greatest_nongreater_key, from idx down to 1
RECURSIVE FindLoop(_, _, _, _)
FindLoop(ents, lv, k, idx) ==
    IF idx < 1 THEN [exc |-> "fallthrough", entry |-> None, level |-> -1]
    ELSE IF lv[idx + 1] = None THEN Raise("AttributeError")
    ELSE IF ents[lv[idx + 1]].key <= k THEN Ret(lv[idx + 1], idx)
    ELSE FindLoop(ents, lv, k, idx - 1)

find_greatest_nongreater_key(ents, lv, k, greatest_level_to_search) ==
    IF greatest_level_to_search < 0 THEN Raise("AssertionError")
    ELSE
      LET top == Min(Len(lv) - 1, greatest_level_to_search)
          loop == FindLoop(ents, lv, k, top)
      IN  IF loop.exc # "fallthrough" THEN loop
          ELSE IF Len(lv) = 0 THEN Raise("IndexError")
          ELSE IF lv[1] = None THEN Ret(None, -1)
          \* idx is unbound when the loop body never ran
          ELSE IF top < 1 THEN Raise("UnboundLocalError")
          \* otherwise idx kept its last value, 1
          ELSE IF lv[2] = None THEN Raise("AttributeError")
          ELSE IF ents[lv[2]].key <= k THEN Ret(lv[2], 1)
          ELSE Ret(None, -1)

\* _SkipListHeaderLevelsVector.get_level
header_get_level(hdr, level_idx) ==
    IF level_idx > Len(hdr) - 1 THEN None ELSE hdr[level_idx + 1]

\* an update that rebuilds the storage up to level_idx instead of growing it
header_update_level_rebuild(hdr, level_idx, e) ==
    [i \in 1..(level_idx + 1) |-> IF i = level_idx + 1 THEN e ELSE None]

\* _SkipListHeaderLevelsVector.update_level
header_update_level(hdr, level_idx, e) ==
    [ensure_size(hdr, level_idx + 1) EXCEPT ![level_idx + 1] = e]

\* the levels of vector v: 0 is the header, i > 0 is entries[i].levels
LevelsOf(hdr, ents, v) == IF v = 0 THEN hdr ELSE ents[v].levels

\* ------------------------------------------------------------ _search
\* local variables of _search at its first loop iteration.  `levels` is the
\* vector the loop searches: 0 is the header.
SearchStart(hdr, key) ==
    [pc |-> "loop", key |-> key, levels |-> 0, entry |-> None,
     ceiling |-> Len(hdr) - 1, traversed |-> <<>>,
     ret |-> None, exc |-> "none"]

\* the callback of _search_to_modify: record entry at level_idx
traverse(traversed, e, level_idx) ==
    [ensure_size(traversed, level_idx + 1) EXCEPT ![level_idx + 1] = e]

\* one iteration of the while loop of _search.  The code assigns entry and
\* greatest_level_to_search_idx and never reassigns levels.
SearchStep(hdr, ents, st) ==
    LET r == find_greatest_nongreater_key(
                 ents, LevelsOf(hdr, ents, st.levels), st.key, st.ceiling)
    IN  IF r.exc # "none" THEN [st EXCEPT !.pc = "raise", !.exc = r.exc]
        ELSE IF r.level < 0 THEN [st EXCEPT !.pc = "return", !.ret = st.entry]
        ELSE IF ents[r.entry].key = st.key
             THEN [st EXCEPT !.pc = "return", !.ret = r.entry]
        ELSE [st EXCEPT !.traversed = traverse(st.traversed, st.entry, r.level),
                        !.entry = r.entry,
                        !.ceiling = r.level]

\* the whole loop; an iteration that leaves every local unchanged repeats
\* for ever
RECURSIVE RunSearch(_, _, _)
RunSearch(hdr, ents, st) ==
    IF st.pc # "loop" THEN st
    ELSE LET n == SearchStep(hdr, ents, st)
         IN  IF n = st THEN [st EXCEPT !.pc = "diverge"]
             ELSE RunSearch(hdr, ents, n)

_search(hdr, ents, key) == RunSearch(hdr, ents, SearchStart(hdr, key))

\* _search_to_modify: (entry, most_recent_traversed_by_level_idx)
_search_to_modify(hdr, ents, key) ==
    LET st == _search(hdr, ents, key)
    IN  IF st.pc # "return" THEN st
        ELSE IF st.ret = None \/ ents[st.ret].key # key
             THEN [st EXCEPT !.ret = None]
        ELSE st

\* ---------------------------------------------------------- _link_entry
\* pointing_entries, filled from the last index down; reading past the end
\* raises IndexError.
RECURSIVE PointingFrom(_, _, _)
PointingFrom(traversed, pointing, idx) ==
    IF idx < 1 THEN [exc |-> "none", list |-> pointing]
    ELSE IF traversed[idx] = None
         THEN IF idx + 1 > Len(pointing)
              THEN [exc |-> "IndexError", list |-> pointing]
              ELSE PointingFrom(traversed,
                       [pointing EXCEPT ![idx] = pointing[idx + 1]], idx - 1)
    ELSE PointingFrom(traversed,
             [pointing EXCEPT ![idx] = traversed[idx]], idx - 1)

pointing_entries(traversed) ==
    PointingFrom(traversed, [i \in 1..Len(traversed) |-> None], Len(traversed))

\* the linking loop of _link_entry from `level` up to link_level.  Only the
\* header has get_level/update_level: an element of pointing_entries is a
\* _SkipListEntry (or None), which has neither.
RECURSIVE LinkFrom(_, _, _, _, _, _)
LinkFrom(hdr, ents, link_level, e, pointing, level) ==
    IF level > link_level THEN [exc |-> "none", header |-> hdr, entries |-> ents]
    ELSE IF level > Len(pointing) - 1
         THEN LET next_entry == header_get_level(hdr, level)
                  hdr2 == header_update_level(hdr, level, e)
              IN  IF level + 1 > Len(ents[e].levels)
                  THEN [exc |-> "IndexError", header |-> hdr2, entries |-> ents]
                  ELSE LinkFrom(hdr2,
                           [ents EXCEPT ![e].levels[level + 1] = next_entry],
                           link_level, e, pointing, level + 1)
    ELSE [exc |-> "AttributeError", header |-> hdr, entries |-> ents]

_link_entry(hdr, ents, link_level, e, traversed) ==
    LET p == pointing_entries(traversed)
    IN  IF p.exc # "none"
        THEN [exc |-> p.exc, header |-> hdr, entries |-> ents]
        ELSE LinkFrom(hdr, ents, link_level, e, p.list, 0)

\* ---------------------------------------------------------- __setitem__
_generate_level == 0

\* _SkipListEntry(key, value, _SkipListLevelsVector(level))
NewEntry(key, value, level) ==
    [key |-> key, value |-> value, levels |-> NewLevels(level)]

\* outcome and new heap of s[key] = value
setitem(hdr, ents, key, value) ==
    LET st == _search_to_modify(hdr, ents, key)
    IN  IF st.pc = "raise"
        THEN [exc |-> st.exc, header |-> hdr, entries |-> ents]
        ELSE IF st.pc = "diverge"
        THEN [exc |-> "diverge", header |-> hdr, entries |-> ents]
        ELSE IF st.ret # None
        \* existing_entry.value = value on a NamedTuple
        THEN [exc |-> "AttributeError", header |-> hdr, entries |-> ents]
        ELSE LET level == _generate_level
                 ents2 == Append(ents, NewEntry(key, value, level))
             IN  _link_entry(hdr, ents2, level, Len(ents2), st.traversed)

\* ------------------------------------------------------ _assert_rep_inv
\* Each check returns the exception it raises, "none" when it passes.  Three
\* of the assertion messages have more placeholders than arguments, so a
\* failure of those assertions surfaces as IndexError from str.format.
AllNone(lv) == \A i \in 1..Len(lv) : lv[i] = None

\* greatest_non_none_idx + 1
GreatestNonNone(lv) ==
    CHOOSE i \in 1..Len(lv) : lv[i] # None /\ \A j \in (i + 1)..Len(lv) : lv[j] = None

\* _SkipListLevelsVector._assert_rep_inv
VectorRepInv(ents, lv) ==
    IF Len(lv) = 0 THEN "AssertionError"
    ELSE IF \E i \in 1..Len(lv) : lv[i] = None /\ \E j \in (i + 1)..Len(lv) : lv[j] # None
         THEN "AssertionError"
    ELSE IF AllNone(lv) THEN "none"
    ELSE LET g == GreatestNonNone(lv)
         IN  IF \E i \in 1..(g - 1) :
                    ~ (lv[i + 1] = lv[i] \/ ents[lv[i + 1]].key > ents[lv[i]].key)
             THEN "IndexError"
             ELSE IF \E i \in 1..g : ~ (Len(ents[lv[i]].levels) >= i)
             THEN "IndexError"
             ELSE "none"

\* the second loop of _SkipListEntry._assert_rep_inv, from index i
RECURSIVE ExpectedFrom(_, _, _, _)
ExpectedFrom(ents, e, expected, i) ==
    IF i > Len(ents[e].levels) THEN [exc |-> "none", expected |-> expected]
    ELSE IF i > Len(expected) THEN [exc |-> "IndexError", expected |-> expected]
    ELSE IF expected[i] # e THEN [exc |-> "AssertionError", expected |-> expected]
    ELSE ExpectedFrom(ents, e, [expected EXCEPT ![i] = ents[e].levels[i]], i + 1)

\* _SkipListEntry._assert_rep_inv
EntryRepInv(ents, e, expected) ==
    LET lv == ents[e].levels
        v == VectorRepInv(ents, lv)
    IN  IF v # "none" THEN [exc |-> v, expected |-> expected]
        ELSE IF \E i \in 1..Len(lv) : lv[i] # None /\ ~ (ents[e].key < ents[lv[i]].key)
        THEN [exc |-> "AssertionError", expected |-> expected]
        ELSE ExpectedFrom(ents, e, expected, 1)

\* the while loop of _SkipList._assert_rep_inv
RECURSIVE RepInvWalk(_, _, _)
RepInvWalk(ents, e, expected) ==
    IF e = None THEN [exc |-> "none", expected |-> expected]
    ELSE LET r == EntryRepInv(ents, e, expected)
         IN  IF r.exc # "none" THEN r
             ELSE RepInvWalk(ents, ents[e].levels[1], r.expected)

\* _SkipList._assert_rep_inv: the exception raised, "none" when it returns
validate(hdr, ents) ==
    LET v == VectorRepInv(ents, hdr)
    IN  IF v # "none" THEN v
        ELSE RepInvWalk(ents, header_get_level(hdr, 0), hdr).exc

\* ----------------------------------------------------- the other methods
\* __getitem__, __delitem__, __contains__ and __iter__ have the body `pass`:
\* they return None and touch nothing.
getitem(hdr, ents, key) == [exc |-> "none", ret |-> None]

\* a delete that splices out the first entry without comparing its key
delitem_unchecked(hdr, ents, key) ==
    IF Len(hdr) = 0 \/ hdr[1] = None
    THEN [exc |-> "none", header |-> hdr, entries |-> ents]
    ELSE [exc |-> "none",
          header |-> [hdr EXCEPT ![1] = ents[hdr[1]].levels[1]],
          entries |-> ents]

\* the heap after del s[key]
delitem(hdr, ents, key) == [exc |-> "none", header |-> hdr, entries |-> ents]

\* `key in s` is bool(__contains__(key)) = bool(None)
contains(hdr, ents, key) == FALSE

\* iter(s) on an __iter__ that returns None
iterate(hdr, ents) == [exc |-> "TypeError", keys |-> <<>>]

\* ------------------------------------------------- reading the structure
\* the entries on the level-0 chain from entry e, in chain order; the walk
\* stops at a repeated entry
RECURSIVE ChainFrom(_, _, _)
ChainFrom(ents, e, seen) ==
    IF e = None \/ e \in seen THEN <<>>
    ELSE <<e>> \o ChainFrom(ents,
                       IF Len(ents[e].levels) = 0 THEN None ELSE ents[e].levels[1],
                       seen \cup {e})

\* entries reached from the header by level-0 references
Chain(hdr, ents) == ChainFrom(ents, header_get_level(hdr, 0), {})

ChainKeys(hdr, ents) ==
    LET c == Chain(hdr, ents) IN [i \in 1..Len(c) |-> ents[c[i]].key]

StrictlyIncreasing(s) == \A i \in 1..(Len(s) - 1) : s[i] < s[i + 1]

\* the keys of a reference map m (key -> value, None when absent), ascending
RECURSIVE SortedKeysFrom(_, _)
SortedKeysFrom(m, k) ==
    IF k > MaxKey THEN <<>>
    ELSE (IF m[k] # None THEN <<k>> ELSE <<>>) \o SortedKeysFrom(m, k + 1)

SortedKeys(m) == SortedKeysFrom(m, 1)

\* the number of entries with key k on the level-0 chain
CountKey(hdr, ents, k) ==
    LET c == Chain(hdr, ents)
    IN  Cardinality({i \in 1..Len(c) : ents[c[i]].key = k})

OnChain(hdr, ents, k) ==
    LET c == Chain(hdr, ents)
    IN  \E i \in 1..Len(c) : ents[c[i]].key = k

\* the number of keys of a reference map
RefSize(m) == Cardinality({k \in Keys : m[k] # None})

\* ------------------------------------------------------- the state machine
EmptyMap == [k \in Keys |-> None]

\* no call yet
NoCall ==
    [op |-> "none", self |-> 1, key |-> 1, value |-> None, present |-> FALSE,
     exc |-> "none", ret |-> None, found |-> FALSE]

SearchIdle ==
    [pc |-> "idle", key |-> 1, levels |-> 0, entry |-> None, ceiling |-> 0,
     traversed |-> <<>>, ret |-> None, exc |-> "none"]

FindIdle ==
    [called |-> FALSE, vec |-> 0, key |-> 1, max_level |-> 0,
     exc |-> "none", entry |-> None, level |-> -1]

NoVectorCall ==
    [op |-> "none", key |-> 1, level |-> 0, traversed |-> <<>>, e |-> None,
     exc |-> "none", ret |-> None, header |-> <<>>, entries |-> <<>>]

\* one _SkipList() exists; _header is the class attribute _SkipListHeaderLevelsVector(0)
Init ==
    /\ header = ensure_size(<<>>, 1)
    /\ entries = <<>>
    /\ instances = 1
    /\ ref = [m |-> EmptyMap, deleted |-> FALSE]
    /\ last = NoCall
    /\ srch = SearchIdle
    /\ examined = {}
    /\ revisit = FALSE
    /\ fres = FindIdle
    /\ call = NoVectorCall

SearchVarsUnchanged == UNCHANGED <<srch, examined, revisit, fres, call>>

\* a call that never returns leaves nothing more to do
Running == last.exc # "diverge"

\* _SkipList(): a further instance; it has no _header of its own
NewList ==
    /\ Running
    /\ instances < MaxLists
    /\ instances' = instances + 1
    /\ last' = [NoCall EXCEPT !.op = "new", !.self = instances + 1]
    /\ UNCHANGED <<header, entries, ref>>
    /\ SearchVarsUnchanged

\* s[key] = value
SetItem(self, key, value) ==
    /\ Running
    /\ LET r == setitem(header, entries, key, value)
       IN  /\ header' = r.header
           /\ entries' = r.entries
           /\ last' = [NoCall EXCEPT !.op = "setitem", !.self = self, !.key = key,
                                     !.value = value, !.exc = r.exc,
                                     !.present = OnChain(header, entries, key)]
    /\ ref' = IF self = 1 THEN [ref EXCEPT !.m[key] = value] ELSE ref
    /\ UNCHANGED instances
    /\ SearchVarsUnchanged

\* s[key]
GetItem(self, key) ==
    /\ Running
    /\ LET r == getitem(header, entries, key)
       IN  last' = [NoCall EXCEPT !.op = "getitem", !.self = self, !.key = key,
                                  !.exc = r.exc, !.ret = r.ret,
                                  !.present = OnChain(header, entries, key)]
    /\ UNCHANGED <<header, entries, instances, ref>>
    /\ SearchVarsUnchanged

\* del s[key]
DelItem(self, key) ==
    /\ Running
    /\ LET r == delitem(header, entries, key)
       IN  /\ header' = r.header
           /\ entries' = r.entries
           /\ last' = [NoCall EXCEPT !.op = "delitem", !.self = self, !.key = key,
                                     !.exc = r.exc,
                                     !.present = OnChain(header, entries, key)]
    /\ ref' = IF self = 1 THEN [ref EXCEPT !.m[key] = None, !.deleted = TRUE] ELSE ref
    /\ UNCHANGED instances
    /\ SearchVarsUnchanged

\* key in s
Contains(self, key) ==
    /\ Running
    /\ last' = [NoCall EXCEPT !.op = "contains", !.self = self, !.key = key,
                              !.found = contains(header, entries, key),
                              !.present = OnChain(header, entries, key)]
    /\ UNCHANGED <<header, entries, instances, ref>>
    /\ SearchVarsUnchanged

\* iter(s)
Iter(self) ==
    /\ Running
    /\ last' = [NoCall EXCEPT !.op = "iter", !.self = self,
                              !.exc = iterate(header, entries).exc]
    /\ UNCHANGED <<header, entries, instances, ref>>
    /\ SearchVarsUnchanged

\* s._assert_rep_inv("")
Validate(self) ==
    /\ Running
    /\ last' = [NoCall EXCEPT !.op = "validate", !.self = self,
                              !.exc = validate(header, entries)]
    /\ UNCHANGED <<header, entries, instances, ref>>
    /\ SearchVarsUnchanged

Next ==
    \/ NewList
    \/ \E self \in 1..instances, key \in Keys, value \in Values : SetItem(self, key, value)
    \/ \E self \in 1..instances, key \in Keys : GetItem(self, key)
    \/ \E self \in 1..instances, key \in Keys : DelItem(self, key)
    \/ \E self \in 1..instances, key \in Keys : Contains(self, key)
    \/ \E self \in 1..instances : Iter(self)
    \/ \E self \in 1..instances : Validate(self)

Spec == Init /\ [][Next]_vars

\* ------------------------------------------- _search on well-formed lists
\* The skip list over the key set K in which the entry of key k has
\* len(levels) = h[k] + 1 and the header has hlen levels: every vector
\* references, at each of its levels, the next entry that has that level.
Rank(K, k) == Cardinality({j \in K : j <= k})

KeyAt(K, i) == CHOOSE k \in K : Rank(K, k) = i

\* the first entry after position i with a slot at level l, None if there is none
NextAt(K, h, i, l) ==
    LET c == {j \in (i + 1)..Cardinality(K) : h[KeyAt(K, j)] >= l}
    IN  IF c = {} THEN None ELSE CHOOSE j \in c : \A x \in c : j <= x

BuildEntries(K, h) ==
    [i \in 1..Cardinality(K) |->
        [key |-> KeyAt(K, i), value |-> 1,
         levels |-> [l \in 1..(h[KeyAt(K, i)] + 1) |-> NextAt(K, h, i, l - 1)]]]

BuildHeader(K, h, hlen) == [l \in 1..hlen |-> NextAt(K, h, 0, l - 1)]

Tallest(K, h) == IF K = {} THEN 0 ELSE CHOOSE x \in {h[k] : k \in K} : \A k \in K : h[k] <= x

InitSearch ==
    /\ \E K \in SUBSET Keys :
         \E h \in [K -> 0..MaxLevel] :
           \E hlen \in (Tallest(K, h) + 1)..(MaxLevel + 1) :
             /\ header = BuildHeader(K, h, hlen)
             /\ entries = BuildEntries(K, h)
             /\ ref = [m |-> [k \in Keys |-> IF k \in K THEN 1 ELSE None],
                       deleted |-> FALSE]
    /\ instances = 1
    /\ last = NoCall
    /\ srch = SearchIdle
    /\ examined = {}
    /\ revisit = FALSE
    /\ fres = FindIdle
    /\ call = NoVectorCall

ListVarsUnchanged == UNCHANGED <<header, entries, instances, ref, last, call>>

\* _search(key) is called: its locals before the first iteration
SearchBegin(key) ==
    /\ srch.pc \in {"idle", "return", "raise"}
    /\ srch' = SearchStart(header, key)
    /\ examined' = {}
    /\ revisit' = FALSE
    /\ UNCHANGED fres
    /\ ListVarsUnchanged

\* one iteration of the loop of _search
SearchIter ==
    /\ srch.pc = "loop"
    /\ srch' = SearchStep(header, entries, srch)
    /\ examined' = examined \cup {<<srch.levels, srch.ceiling>>}
    /\ revisit' = (revisit \/ <<srch.levels, srch.ceiling>> \in examined)
    /\ UNCHANGED fres
    /\ ListVarsUnchanged

\* find_greatest_nongreater_key(key, max_level) on the vector vec
Find(vec, key, max_level) ==
    /\ LET r == find_greatest_nongreater_key(
                    entries, LevelsOf(header, entries, vec), key, max_level)
       IN  fres' = [called |-> TRUE, vec |-> vec, key |-> key, max_level |-> max_level,
                    exc |-> r.exc, entry |-> r.entry, level |-> r.level]
    /\ UNCHANGED <<srch, examined, revisit>>
    /\ ListVarsUnchanged

NextSearch ==
    \/ \E key \in Keys : SearchBegin(key)
    \/ SearchIter
    \/ \E vec \in 0..Len(entries), key \in Keys, max_level \in 0..MaxLevel :
          Find(vec, key, max_level)

SpecSearch == InitSearch /\ [][NextSearch]_vars

\* every list InitSearch builds passes validation
BuiltListsValid == validate(header, entries) = "none"

\* ------------------------------------------------------------ the claims

\* C1: after any sequence of inserts into an initially empty list, the keys
\* on the level-0 chain from the header are strictly increasing and are the
\* sorted keys of a reference map that received the same inserts.
C1_IterationMatchesReference ==
    (instances = 1 /\ ~ ref.deleted /\ last.op = "setitem")
        => /\ StrictlyIncreasing(ChainKeys(header, entries))
           /\ ChainKeys(header, entries) = SortedKeys(ref.m)

\* C2: in every state reachable by inserts and deletes from a new list,
\* _SkipList._assert_rep_inv returns without raising.
C2_ValidateHolds == validate(header, entries) = "none"

\* C2 witness: validation ran and passed on a one-element list after inserts
\* and a delete were issued.
C2_Witness ==
    /\ last.op = "validate"
    /\ last.exc = "none"
    /\ Len(Chain(header, entries)) = 1
    /\ RefSize(ref.m) >= 1
    /\ ref.deleted

\* C3: after insert(k, v) on a list that contains k, get(k) returns v and
\* exactly one entry with key k is on the level-0 chain.
C3_LastWriteWins ==
    (last.op = "setitem" /\ last.present)
        => /\ last.exc = "none"
           /\ getitem(header, entries, last.key).exc = "none"
           /\ getitem(header, entries, last.key).ret = last.value
           /\ CountKey(header, entries, last.key) = 1

\* C4: the number of entries on the level-0 chain equals the number of
\* distinct keys inserted and not deleted afterwards.
C4_NodeCount ==
    instances = 1 => Len(Chain(header, entries)) = RefSize(ref.m)

\* C5: delete(k) of a present key k leaves k absent (contains is false, get
\* fails, k is off the level-0 chain) and keeps every other present key.
C5_DeleteRemoves ==
    [][\A self \in 1..MaxLists, key \in Keys :
         (last'.op = "delitem" /\ DelItem(self, key) /\ OnChain(header, entries, key))
            => /\ last'.exc = "none"
               /\ ~ contains(header', entries', key)
               /\ getitem(header', entries', key).exc = "KeyNotFound"
               /\ ~ OnChain(header', entries', key)
               /\ \A k2 \in Keys \ {key} :
                     OnChain(header, entries, k2) => OnChain(header', entries', k2)]_vars

\* C6: for a key k that is not in the list, get(k) fails with KeyNotFound,
\* contains(k) is false, and neither call changes the list.
C6_AbsentKeyReported ==
    [][\A self \in 1..MaxLists, key \in Keys :
         /\ (last'.op = "getitem" /\ GetItem(self, key) /\ ~ OnChain(header, entries, key))
               => /\ last'.exc = "KeyNotFound"
                  /\ header' = header /\ entries' = entries
         /\ (last'.op = "contains" /\ Contains(self, key) /\ ~ OnChain(header, entries, key))
               => /\ ~ last'.found
                  /\ header' = header /\ entries' = entries]_vars

\* C7: delete(k) of a key k that is not in the list raises nothing and
\* leaves the header vector and every entry (levels and value) unchanged.
C7_DeleteAbsentIsNoOp ==
    [][\A self \in 1..MaxLists, key \in Keys :
         (last'.op = "delitem" /\ DelItem(self, key) /\ ~ OnChain(header, entries, key))
            => /\ last'.exc = "none"
               /\ header' = header
               /\ entries' = entries]_vars

\* C7 witness: a delete of an absent key has run on a non-empty list.
C7_Witness ==
    /\ last.op = "delitem"
    /\ ~ last.present
    /\ last.exc = "none"
    /\ Len(Chain(header, entries)) = 1

\* the entry _search(k) is documented to return: the entry with the greatest
\* key that is at most k, None when there is none
SearchExpected(hdr, ents, k) ==
    LET c == {i \in 1..Len(ents) : OnChain(hdr, ents, ents[i].key) /\ ents[i].key <= k}
    IN  IF c = {} THEN None
        ELSE CHOOSE i \in c : \A j \in c : ents[j].key <= ents[i].key

\* C8: on a list that satisfies the representation invariant, _search(k)
\* returns the entry with key k if there is one, otherwise the entry with the
\* greatest key below k, and None exactly when no key is at most k.
C8_SearchResult ==
    srch.pc \in {"return", "raise"}
        => /\ srch.pc = "return"
           /\ srch.ret = SearchExpected(header, entries, srch.key)

\* C9: the loop of _search never examines the same (vector, level ceiling)
\* pair twice, so it terminates.
C9_NeverExaminedTwice == ~ revisit

\* the levels of lv, up to max_level, whose entry is present with key <= k
NonGreaterLevels(ents, lv, k, max_level) ==
    {l \in 0..Min(Len(lv) - 1, max_level) :
        lv[l + 1] # None /\ ents[lv[l + 1]].key <= k}

\* C10: find_greatest_nongreater_key(k, max_level) never raises; it returns
\* the highest level in 0..min(length-1, max_level) whose entry is present
\* with key <= k, together with that entry; and (None, -1) exactly when the
\* level-0 entry is absent or has a key greater than k.
C10_FindResult ==
    fres.called
        => LET lv == LevelsOf(header, entries, fres.vec)
               S == NonGreaterLevels(entries, lv, fres.key, fres.max_level)
           IN  /\ fres.exc = "none"
               /\ S # {} => /\ fres.level \in S
                            /\ \A l \in S : l <= fres.level
                            /\ fres.entry = lv[fres.level + 1]
               /\ (fres.entry = None /\ fres.level = -1)
                     <=> (lv[1] = None \/ entries[lv[1]].key > fres.key)

\* --------------------------- _link_entry and the header vector, called directly
\* the predecessor tables _link_entry is given for key: per level None or an
\* entry with a smaller key that has a slot at that level; the table ends at
\* the highest level that has an entry (the header is omitted)
Tables(ents, key) ==
    UNION {[1..n -> {None} \cup {i \in 1..Len(ents) : ents[i].key < key}] :
              n \in 0..(MaxLevel + 1)}

TableFits(ents, t) ==
    /\ \A l \in 1..Len(t) : t[l] # None => Len(ents[t[l]].levels) >= l
    /\ Len(t) > 0 => t[Len(t)] # None

\* _link_entry(level, _SkipListEntry(key, value, _SkipListLevelsVector(level)),
\* traversed) on a list that does not hold key
LinkCall(key, value, level, traversed) ==
    /\ call.op = "none"
    /\ ~ OnChain(header, entries, key)
    /\ TableFits(entries, traversed)
    /\ LET ents2 == Append(entries, NewEntry(key, value, level))
           r == _link_entry(header, ents2, level, Len(ents2), traversed)
       IN  /\ header' = r.header
           /\ entries' = r.entries
           /\ call' = [NoVectorCall EXCEPT !.op = "link", !.key = key, !.level = level,
                                           !.traversed = traversed, !.e = Len(ents2),
                                           !.exc = r.exc,
                                           !.header = header, !.entries = ents2]
    /\ UNCHANGED <<instances, ref, last, srch, examined, revisit, fres>>

\* _header.get_level(level)
HeaderGet(level) ==
    /\ call.op = "none"
    /\ call' = [NoVectorCall EXCEPT !.op = "get", !.level = level,
                                    !.ret = header_get_level(header, level),
                                    !.header = header, !.entries = entries]
    /\ UNCHANGED <<header, entries, instances, ref, last, srch, examined, revisit, fres>>

\* _header.update_level(level, e)
HeaderUpdate(level, e) ==
    /\ call.op = "none"
    /\ header' = header_update_level(header, level, e)
    /\ call' = [NoVectorCall EXCEPT !.op = "update", !.level = level, !.e = e,
                                    !.header = header, !.entries = entries]
    /\ UNCHANGED <<entries, instances, ref, last, srch, examined, revisit, fres>>

NextLink ==
    \/ \E key \in Keys, value \in Values, level \in 0..MaxLevel :
          \E traversed \in Tables(entries, key) : LinkCall(key, value, level, traversed)
    \/ \E level \in 0..(MaxLevel + 1) : HeaderGet(level)
    \/ \E level \in 0..MaxLevel, e \in 0..Len(entries) : HeaderUpdate(level, e)

SpecLink == InitSearch /\ [][NextLink]_vars

\* the slot of vector v at level, None when v has no such slot
SlotOf(hdr, ents, v, level) ==
    LET lv == LevelsOf(hdr, ents, v)
    IN  IF level + 1 > Len(lv) THEN None ELSE lv[level + 1]

\* the predecessor the table t names for level: the nearest entry of t at or
\* below level, the header (0) when t does not reach level or has none
TablePredecessor(t, level) ==
    LET c == {l \in 0..level : l + 1 <= Len(t) /\ t[l + 1] # None}
    IN  IF level > Len(t) - 1 \/ c = {} THEN 0
        ELSE t[(CHOOSE l \in c : \A x \in c : x <= l) + 1]

\* C11: an insert of an absent key with height L links the new entry at each
\* level 0..L behind the predecessor the table names for that level: the
\* call raises nothing, the predecessor's slot holds the new entry, and the
\* new entry's slot holds what the predecessor's slot held before.
C11_LinkSplices ==
    call.op = "link"
        => /\ call.exc = "none"
           /\ \A l \in 0..call.level :
                 LET p == TablePredecessor(call.traversed, l)
                 IN  /\ SlotOf(header, entries, p, l) = call.e
                     /\ SlotOf(header, entries, call.e, l)
                            = SlotOf(call.header, call.entries, p, l)

\* the last entry before key k that has a slot at level, None when the
\* header is the predecessor at that level
PredecessorAt(hdr, ents, k, level) ==
    LET c == {i \in 1..Len(ents) : /\ OnChain(hdr, ents, ents[i].key)
                                   /\ ents[i].key < k
                                   /\ Len(ents[i].levels) >= level + 1}
    IN  IF c = {} THEN None
        ELSE CHOOSE i \in c : \A j \in c : ents[j].key <= ents[i].key

\* C12: on a list that satisfies the representation invariant,
\* _search_to_modify(k) returns a table whose entries are, at their level,
\* the last entry with a key below k; the table has no slot standing for the
\* header and is empty when no key is below k.  For a key k that is not in
\* the list and has an entry before it, the traversal ends by stepping down
\* below level 0 from that entry, so the call returns and the table holds it.
C12_PredecessorTable ==
    LET t == srch.traversed
        k == srch.key
        p == PredecessorAt(header, entries, k, 0)
    IN  /\ srch.pc = "return"
              => /\ \A l \in 1..Len(t) :
                       t[l] # None => t[l] = PredecessorAt(header, entries, k, l - 1)
                 /\ Len(t) > 0 => t[Len(t)] # None
                 /\ p = None => t = <<>>
        /\ ((srch.pc \in {"return", "raise"} \/ revisit)
               /\ ~ OnChain(header, entries, k) /\ p # None)
              => /\ srch.pc = "return"
                 /\ \E l \in 1..Len(t) : t[l] = p

\* ------------------------------------------ __setitem__ on well-formed lists
\* s[key] = value on instance 1; the arena holds at most one entry more than
\* there are keys
Insert(key, value) ==
    /\ Len(entries) <= MaxKey
    /\ SetItem(1, key, value)

NextInsert ==
    \/ \E key \in Keys, value \in Values : Insert(key, value)
    \/ Validate(1)

\* inserts into the well-formed lists of InitSearch (each is what _link_entry
\* builds when the entries are linked at the head in descending key order)
SpecInsert == InitSearch /\ [][NextInsert]_vars

ChainAtLevel(hdr, ents, level) ==
    SelectSeq(Chain(hdr, ents), LAMBDA e : Len(ents[e].levels) >= level + 1)

C15_HeaderLength ==
    [][/\ Len(header') >= Len(header)
       /\ Len(header') >= 1
       /\ (call'.op = "link" /\ call'.exc = "none")
             => Len(header') = (IF Len(header) > call'.level + 1
                                THEN Len(header) ELSE call'.level + 1)
       /\ call'.op = "get"
             => /\ header' = header
                /\ call'.level >= Len(header) => call'.ret = None
                /\ call'.level < Len(header) => call'.ret = header[call'.level + 1]
       /\ call'.op = "update"
             => \A i \in 1..Len(header') :
                   header'[i] = (IF i = call'.level + 1 THEN call'.e
                                 ELSE IF i <= Len(header) THEN header[i]
                                 ELSE None)]_vars

\* C15 witness: an insert linked an entry taller than the header was.
C15_Witness ==
    /\ call.op = "link"
    /\ call.exc = "none"
    /\ call.level + 1 > Len(call.header)
    /\ Len(header) = call.level + 1

\* ------------------------------------------- validation of damaged lists
\* the heap with the slot of vector v (0 the header) at level replaced by r
Overwrite(hdr, ents, v, level, r) ==
    IF v = 0
    THEN [header |-> [hdr EXCEPT ![level + 1] = r], entries |-> ents]
    ELSE [header |-> hdr, entries |-> [ents EXCEPT ![v].levels[level + 1] = r]]

\* a well-formed list in which one slot holds an arbitrary reference
InitDamaged ==
    /\ \E K \in SUBSET Keys :
         \E h \in [K -> 0..MaxLevel] :
           \E hlen \in (Tallest(K, h) + 1)..(MaxLevel + 1) :
             LET hdr == BuildHeader(K, h, hlen)
                 ents == BuildEntries(K, h)
             IN  \E v \in 0..Len(ents) :
                   \E level \in 0..(Len(LevelsOf(hdr, ents, v)) - 1) :
                     \E r \in 0..Len(ents) :
                        /\ header = Overwrite(hdr, ents, v, level, r).header
                        /\ entries = Overwrite(hdr, ents, v, level, r).entries
    /\ instances = 1
    /\ ref = [m |-> EmptyMap, deleted |-> FALSE]
    /\ last = NoCall
    /\ srch = SearchIdle
    /\ examined = {}
    /\ revisit = FALSE
    /\ fres = FindIdle
    /\ call = NoVectorCall

NextDamaged == Validate(1)

SpecDamaged == InitDamaged /\ [][NextDamaged]_vars

\* the header or an entry of the level-0 chain references, at some level, an
\* entry that the level-0 walk does not visit at that level
Stray(hdr, ents) ==
    LET c == Chain(hdr, ents)
        visited(r, level) ==
            /\ \E i \in 1..Len(c) : c[i] = r
            /\ Len(ents[r].levels) >= level + 1
    IN  \E v \in {0} \cup {c[i] : i \in 1..Len(c)} :
           \E level \in 0..(Len(LevelsOf(hdr, ents, v)) - 1) :
              LET r == LevelsOf(hdr, ents, v)[level + 1]
              IN  r # None /\ ~ visited(r, level)

\* C16: validation raises on every structure in which the header or an entry
\* references, at some level, an entry the level-0 walk never visits at that
\* level (the expected-next table is not drained to None at the end).
C16_ValidateRejectsUndrained ==
    (last.op = "validate" /\ Stray(header, entries)) => last.exc # "none"

\* self._header of instance self: no instance assigns _header, so the lookup
\* finds the class attribute, whatever the instance
HeaderOf(hdr, self) == hdr

\* C17: each instance has its own header: a newly constructed list is empty
\* whatever other instances hold, and an insert into one instance leaves the
\* header of every other instance unchanged.
C17_OwnHeader ==
    [][/\ (last'.op = "new" /\ NewList)
             => header_get_level(HeaderOf(header', last'.self), 0) = None
       /\ \A self \in 1..MaxLists, key \in Keys, value \in Values :
             (last'.op = "setitem" /\ SetItem(self, key, value))
                => \A other \in (1..instances) \ {self} :
                      HeaderOf(header', other) = HeaderOf(header, other)]_vars

\* C18: __setitem__ completes normally in every state reachable from a new
\* list: it raises nothing (no unbound variable, index out of range, missing
\* attribute or failed assertion) and it returns.
C18_SetItemCompletes ==
    last.op = "setitem" => last.exc = "none"

====
